---------------------------- MODULE Spec2Model ----------------------------
(***************************************************************************)
(* LightSeed (src/lightseed.js): a point quadtree (class QuadTree) and the *)
(* peer selection engine built on it (class LightSeed).                    *)
(*                                                                         *)
(* Numbers.  The source computes in IEEE doubles.  Coordinates here are    *)
(* fixed-point integers with FracBits fractional bits, so that the halving *)
(* done by subdivide is exact at every level the model can reach, as it is *)
(* in doubles for these magnitudes (HalvingExact).  Weights are fixed-point *)
(* numbers with two decimal digits (100 stands for 1.0); Math.sqrt rounds  *)
(* down to the coordinate grid and Math.exp is a decreasing approximation  *)
(* that is exact at 0 and at underflow.  Probabilities are exact fractions *)
(* of the weights.  Ids are array indices, as the JSDoc of the methods     *)
(* says (number).                                                          *)
(***************************************************************************)
EXTENDS Integers, Sequences, FiniteSets, TLC

VARIABLES
    config,     \* LightSeed.config: the merged configuration (line 125)
    peers,      \* LightSeed.peers: sparse array idx -> record (line 147)
    quadtree,   \* LightSeed.quadtree / the QuadTree under test: path -> node
    inserted,   \* history of a tree used on its own: its insert calls and their results
    last        \* the last call made and what it returned

vars == <<config, peers, quadtree, inserted, last>>

---------------------------------------------------------------------------
(* Bounds of the model *)

\* the index holds at most MaxPoints entries when an insert call is made
MaxPoints == 3

\* fractional bits of a coordinate: a tree of n points has at most n levels
FracBits == MaxPoints + 1
Unit == 2 ^ FracBits

\* the participant ids callers use
Ids == {0, 1, 2}

---------------------------------------------------------------------------
(* Helper functions for vector operations, lines 17-28 *)

Max(a, b) == IF a >= b THEN a ELSE b
Min(a, b) == IF a <= b THEN a ELSE b

\* Math.sqrt on a non-negative integer, rounded down to the fixed-point grid
RECURSIVE SqrtBetween(_, _, _)
SqrtBetween(s, lo, hi) ==
    IF lo = hi THEN lo
    ELSE LET mid == (lo + hi + 1) \div 2
         IN  IF mid * mid <= s THEN SqrtBetween(s, mid, hi)
             ELSE SqrtBetween(s, lo, mid - 1)

Sqrt(s) == SqrtBetween(s, 0, Min(s, 46340))

norm(vec) == Sqrt(vec[1] * vec[1] + vec[2] * vec[2])

dot(vec1, vec2) == vec1[1] * vec2[1] + vec1[2] * vec2[2]

subtract(vec1, vec2) == <<vec1[1] - vec2[1], vec1[2] - vec2[2]>>

---------------------------------------------------------------------------
(* class QuadTree, lines 31-119.  A tree is a function from paths (the     *)
(* sequence of child fields followed from the root) to nodes.              *)

Root == <<>>
Quadrants == <<"northwest", "northeast", "southwest", "southeast">>

\* constructor, lines 32-37
QuadTree(boundary, capacity) ==
    [boundary |-> boundary, capacity |-> capacity, points |-> <<>>, divided |-> FALSE]

NewTree(boundary, capacity) == Root :> QuadTree(boundary, capacity)

Child(path, q) == path \o <<q>>

\* lines 81-84
inBoundaryClosed(boundary, point) ==
    /\ point.x >= boundary.x
    /\ point.x <= boundary.x + boundary.width
    /\ point.y >= boundary.y
    /\ point.y <= boundary.y + boundary.height

inBoundaryOpen(boundary, point) ==
    /\ point.x > boundary.x
    /\ point.x < boundary.x + boundary.width
    /\ point.y > boundary.y
    /\ point.y < boundary.y + boundary.height

inBoundary(boundary, point) ==
    /\ point.x >= boundary.x
    /\ point.x < boundary.x + boundary.width
    /\ point.y >= boundary.y
    /\ point.y < boundary.y + boundary.height

\* lines 58-77: the boundary subdivide gives the child in quadrant q
childBoundarySlip(b, q) ==
    LET halfWidth == b.width \div 2
        halfHeight == b.height \div 2
    IN  [x |-> IF q \in {"northeast", "southeast"} THEN b.x + halfWidth ELSE b.x,
         y |-> IF q \in {"southwest"} THEN b.y + halfHeight ELSE b.y,
         width |-> halfWidth, height |-> halfHeight]

childBoundary(b, q) ==
    LET halfWidth == b.width \div 2
        halfHeight == b.height \div 2
    IN  [x |-> IF q \in {"northeast", "southeast"} THEN b.x + halfWidth ELSE b.x,
         y |-> IF q \in {"southwest", "southeast"} THEN b.y + halfHeight ELSE b.y,
         width |-> halfWidth, height |-> halfHeight]

\* lines 57-79
subdivide(qt, path) ==
    LET b == qt[path].boundary
        cap == qt[path].capacity
    IN  (Child(path, "northwest") :> QuadTree(childBoundary(b, "northwest"), cap))
        @@ (Child(path, "northeast") :> QuadTree(childBoundary(b, "northeast"), cap))
        @@ (Child(path, "southwest") :> QuadTree(childBoundary(b, "southwest"), cap))
        @@ (Child(path, "southeast") :> QuadTree(childBoundary(b, "southeast"), cap))
        @@ [qt EXCEPT ![path].divided = TRUE]

\* lines 39-55; the result is the tree after the call and the value returned.
\* orChildren is the || chain of lines 49-54: the children are tried in the
\* order of Quadrants and the first that returns true ends the chain.
RECURSIVE insert(_, _, _), orChildren(_, _, _, _)
insertOverfill(qt, path, point) ==
    LET node == qt[path] IN
    IF ~inBoundary(node.boundary, point)
    THEN [qt |-> qt, ok |-> FALSE]
    ELSE IF Len(node.points) <= node.capacity /\ ~node.divided
    THEN [qt |-> [qt EXCEPT ![path].points = Append(@, point)], ok |-> TRUE]
    ELSE orChildren(IF ~node.divided THEN subdivide(qt, path) ELSE qt, path, point, 1)

insert(qt, path, point) ==
    LET node == qt[path] IN
    IF ~inBoundary(node.boundary, point)
    THEN [qt |-> qt, ok |-> FALSE]
    ELSE IF Len(node.points) < node.capacity /\ ~node.divided
    THEN [qt |-> [qt EXCEPT ![path].points = Append(@, point)], ok |-> TRUE]
    ELSE orChildren(IF ~node.divided THEN subdivide(qt, path) ELSE qt, path, point, 1)

orChildren(qt, path, point, i) ==
    LET r == insert(qt, Child(path, Quadrants[i]), point)
    IN  IF r.ok \/ i = Len(Quadrants) THEN r
        ELSE orChildren(r.qt, path, point, i + 1)

\* lines 103-111
intersects(boundary, range) ==
    LET closestX == Max(boundary.x, Min(range.cx, boundary.x + boundary.width))
        closestY == Max(boundary.y, Min(range.cy, boundary.y + boundary.height))
        dx == closestX - range.cx
        dy == closestY - range.cy
    IN  (dx * dx + dy * dy) <= (range.r * range.r)

\* lines 113-118
pointInRangeStrict(point, range) ==
    LET dx == point.x - range.cx
        dy == point.y - range.cy
    IN  (dx * dx + dy * dy) < (range.r * range.r)

pointInRange(point, range) ==
    LET dx == point.x - range.cx
        dy == point.y - range.cy
    IN  (dx * dx + dy * dy) <= (range.r * range.r)

\* lines 86-101
RECURSIVE query(_, _, _, _)
query(qt, path, range, found) ==
    LET node == qt[path] IN
    IF ~intersects(node.boundary, range)
    THEN found
    ELSE LET f0 == found \o SelectSeq(node.points, LAMBDA p : pointInRange(p, range))
         IN  IF node.divided
             THEN LET f1 == query(qt, Child(path, "northwest"), range, f0)
                      f2 == query(qt, Child(path, "northeast"), range, f1)
                      f3 == query(qt, Child(path, "southwest"), range, f2)
                  IN  query(qt, Child(path, "southeast"), range, f3)
             ELSE f0


---------------------------------------------------------------------------
(* Tree inspection used by the properties *)

\* every point held by any node of the tree, as a sequence (root first)
RECURSIVE AllPoints(_, _)
AllPoints(qt, path) ==
    IF path \notin DOMAIN qt THEN <<>>
    ELSE qt[path].points
         \o AllPoints(qt, Child(path, "northwest"))
         \o AllPoints(qt, Child(path, "northeast"))
         \o AllPoints(qt, Child(path, "southwest"))
         \o AllPoints(qt, Child(path, "southeast"))

Count(seq, e) == Cardinality({i \in DOMAIN seq : seq[i] = e})

Range(seq) == {seq[i] : i \in DOMAIN seq}

---------------------------------------------------------------------------
(* class LightSeed, lines 122-241 *)

\* Array.prototype.length of the sparse array this.peers
length(ps) ==
    IF DOMAIN ps = {} THEN 0
    ELSE (CHOOSE m \in DOMAIN ps : \A i \in DOMAIN ps : i <= m) + 1

\* derived constants, lines 138-140
cellSizeLinear(cfg) == cfg.worldSize \div (2 * cfg.maxDepth)

cellSize(cfg) == cfg.worldSize \div (2 ^ cfg.maxDepth)
c(cfg) == cfg.nCells * cellSize(cfg)

\* line 143
boundary(cfg) == [x |-> 0, y |-> 0, width |-> cfg.worldSize, height |-> cfg.worldSize]

\* constructor, lines 123-148: the state of a new engine
LightSeed(cfg) ==
    /\ config = cfg
    /\ quadtree = NewTree(boundary(cfg), cfg.capacity)
    /\ peers = <<>>

\* the record insertPeer stores, line 159
NewPeer(idx, x, y) ==
    [idx |-> idx, x |-> x, y |-> y, vx |-> 0, vy |-> 0, tdf |-> 100, latency |-> 0]

\* this.peers[idx] = rec
Store(ps, idx, rec) == (idx :> rec) @@ ps

\* lines 175-178: the rebuild of the index from the store, in index order
RECURSIVE forEachInsert(_, _, _)
forEachInsert(ps, i, qt) ==
    IF i >= length(ps) THEN qt
    ELSE IF i \in DOMAIN ps
    THEN forEachInsert(ps, i + 1,
            insert(qt, Root, [x |-> ps[i].x, y |-> ps[i].y, idx |-> ps[i].idx]).qt)
    ELSE forEachInsert(ps, i + 1, qt)

rebuildInPlace(cfg, ps) == forEachInsert(ps, 0, quadtree)

rebuild(cfg, ps) == forEachInsert(ps, 0, NewTree(boundary(cfg), cfg.capacity))

---------------------------------------------------------------------------
(* The weight of a candidate, lines 201-227.  Fixed point: 100 is 1.0.     *)
(* tdf and sigma are in hundredths, latency in milliseconds, positions,    *)
(* velocities, d0 and v0 in coordinate units, beta in hundredths.          *)

\* Math.exp(-(n / d)) for n >= 0, d > 0: 1 at 0, 0 once the double underflows
\* (past 745), and in between the decreasing approximation 1 / (1 + x + x^2/2),
\* which keeps 0 < exp(-x) < 1
ExpNeg(n, d) ==
    IF n = 0 THEN 100
    ELSE IF n >= 746 * d THEN 0
    ELSE (100 * 2 * d * d) \div (2 * d * d + 2 * n * d + n * n)

\* line 202: 1 / Math.max(peer.latency, 0.001)
latencyTerm(peer) == 100000 \div Max(peer.latency, 1)

\* lines 205-206
tdfTerm(cfg, sender, peer) ==
    LET tdfDiff == sender.tdf - peer.tdf
    IN  ExpNeg(tdfDiff * tdfDiff, 2 * cfg.sigma * cfg.sigma)

\* lines 209-213
distanceTerm(cfg, player, peer) ==
    LET dkj == norm(subtract(<<player.x, player.y>>, <<peer.x, peer.y>>))
    IN  (100 * cfg.d0) \div (cfg.d0 + dkj)

\* lines 216-223
speedTerm(cfg, player, peer) ==
    LET relPosition == subtract(<<player.x, player.y>>, <<peer.x, peer.y>>)
        dkj == norm(relPosition)
        relVelocity == subtract(<<player.vx, player.vy>>, <<peer.vx, peer.vy>>)
        skj == IF dkj > 0
               THEN Max(0, (0 - dot(relVelocity, relPosition)) \div dkj)
               ELSE 0
    IN  100 + (cfg.beta * skj) \div cfg.v0

\* line 226
weight(cfg, sender, player, peer) ==
    (((((latencyTerm(peer) * tdfTerm(cfg, sender, peer)) \div 100)
        * distanceTerm(cfg, player, peer)) \div 100)
        * speedTerm(cfg, player, peer)) \div 100

---------------------------------------------------------------------------
(* Probabilities are fractions [num, den] in lowest terms *)

RECURSIVE GCD(_, _)
GCD(a, b) == IF b = 0 THEN a ELSE GCD(b, a % b)

Frac(n, d) == LET g == GCD(n, d) IN [num |-> n \div g, den |-> d \div g]

RECURSIVE SumSeq(_)
SumSeq(s) == IF s = <<>> THEN 0 ELSE Head(s) + SumSeq(Tail(s))

\* line 231: weights.reduce(...) || 1
totalWeightOf(weights) ==
    LET sum == SumSeq(weights) IN IF sum = 0 THEN 1 ELSE sum

\* line 233: this.peers.length || 1
participantCount(ps) == IF length(ps) = 0 THEN 1 ELSE length(ps)

\* lines 232-234: (1 - epsilon) * (w / totalWeight) + epsilon / N
probNoBlend(cfg, w, totalWeight, n) ==
    Frac(cfg.epsilon.den * w * n + cfg.epsilon.num * totalWeight,
         cfg.epsilon.den * totalWeight * n)

prob(cfg, w, totalWeight, n) ==
    Frac((cfg.epsilon.den - cfg.epsilon.num) * w * n + cfg.epsilon.num * totalWeight,
         cfg.epsilon.den * totalWeight * n)

\* line 193: the ids the index query returns for the sender, in tree order
peersInRangeOf(cfg, ps, qt, senderIdx) ==
    LET sender == ps[senderIdx]
        range == [cx |-> sender.x, cy |-> sender.y, r |-> c(cfg) * cfg.deltaT]
        found == query(qt, Root, range, <<>>)
    IN  [i \in DOMAIN found |-> found[i].idx]

\* lines 196-199: the candidates that get a weight, in order
candidatesOf(ps, peersInRange, senderIdx) ==
    SelectSeq(peersInRange, LAMBDA j : j # senderIdx /\ j \in DOMAIN ps)

\* lines 237-239: keep the entries of peersInRange at the positions where
\* weights has an element, and pair the i-th of them with probs[i]
pairUp(peersInRange, weights, probs) ==
    [i \in 1 .. Min(Len(peersInRange), Len(weights)) |->
        [peerIdx |-> peersInRange[i], prob |-> probs[i]]]

\* lines 187-240: what selectPeers returns; threw is the TypeError of line 209
\* when a candidate is scored and this.peers[playerIdx] is undefined
noSenderUnguarded == [threw |-> TRUE, value |-> <<>>]

\* line 189: return []
noSender == [threw |-> FALSE, value |-> <<>>]

selectPeersOf(cfg, ps, qt, senderIdx, playerIdx) ==
    IF senderIdx \notin DOMAIN ps
    THEN noSender
    ELSE LET sender == ps[senderIdx]
             peersInRange == peersInRangeOf(cfg, ps, qt, senderIdx)
             cands == candidatesOf(ps, peersInRange, senderIdx)
         IN  IF cands # <<>> /\ playerIdx \notin DOMAIN ps
             THEN [threw |-> TRUE, value |-> <<>>]
             ELSE LET weights == [i \in DOMAIN cands |->
                                    weight(cfg, sender, ps[playerIdx], ps[cands[i]])]
                      totalWeight == totalWeightOf(weights)
                      probs == [i \in DOMAIN weights |->
                                    prob(cfg, weights[i], totalWeight, participantCount(ps))]
                  IN  [threw |-> FALSE, value |-> pairUp(peersInRange, weights, probs)]


---------------------------------------------------------------------------
(* The engine: one action per method of LightSeed *)

U(n) == n * Unit

\* the configuration of the engine under check: a world of 4 x 4 units,
\* cells of 2 units, a causal horizon of 2 units, one point per node
Configs ==
    {[worldSize |-> U(4), maxDepth |-> 1, capacity |-> 1, nCells |-> 1, deltaT |-> 1,
      sigma |-> 10, d0 |-> U(2), v0 |-> U(1), beta |-> 100,
      epsilon |-> [num |-> 1, den |-> 20]]}

\* positions callers pass: the origin, a far point in another quadrant, and a
\* point with x = worldSize (what a caller that clamps to [0, worldSize] sends)
Positions == {<<U(0), U(0)>>, <<U(3), U(3)>>, <<U(4), U(1)>>}

\* (vx, vy, tdf, latency) callers pass to updatePeer
Profiles ==
    {[vx |-> 0 - U(1), vy |-> 0, tdf |-> 500, latency |-> 50]}

IndexSize == Len(AllPoints(quadtree, Root))

Init ==
    /\ \E cfg \in Configs : LightSeed(cfg)
    /\ inserted = <<>>
    /\ last = [op |-> "new"]

\* lines 156-160
insertPeer(idx, x, y) ==
    /\ quadtree' = insert(quadtree, Root, [x |-> x, y |-> y, idx |-> idx]).qt
    /\ peers' = Store(peers, idx, NewPeer(idx, x, y))
    /\ last' = [op |-> "insertPeer", idx |-> idx]
    /\ UNCHANGED <<config, inserted>>

\* lines 172-179
updatePeer(idx, x, y, vx, vy, tdf, latency) ==
    /\ peers' = Store(peers, idx, [idx |-> idx, x |-> x, y |-> y, vx |-> vx, vy |-> vy,
                                   tdf |-> tdf, latency |-> latency])
    /\ quadtree' = rebuild(config, peers')
    /\ last' = [op |-> "updatePeer", idx |-> idx]
    /\ UNCHANGED <<config, inserted>>

\* lines 187-240
selectPeersRefreshing(senderIdx, playerIdx) ==
    /\ quadtree' = rebuild(config, peers)
    /\ last' = [op |-> "selectPeers", senderIdx |-> senderIdx, playerIdx |-> playerIdx,
                result |-> selectPeersOf(config, peers, quadtree', senderIdx, playerIdx)]
    /\ UNCHANGED <<config, peers, inserted>>

selectPeers(senderIdx, playerIdx) ==
    /\ last' = [op |-> "selectPeers", senderIdx |-> senderIdx, playerIdx |-> playerIdx,
                result |-> selectPeersOf(config, peers, quadtree, senderIdx, playerIdx)]
    /\ UNCHANGED <<config, peers, quadtree, inserted>>

Next ==
    \/ /\ IndexSize < MaxPoints
       /\ \E idx \in Ids, p \in Positions : insertPeer(idx, p[1], p[2])
    \/ \E idx \in Ids, p \in Positions, f \in Profiles :
            updatePeer(idx, p[1], p[2], f.vx, f.vy, f.tdf, f.latency)
    \/ \E s \in Ids, k \in Ids : selectPeers(s, k)

Spec == Init /\ [][Next]_vars

---------------------------------------------------------------------------
(* A QuadTree used on its own: insert and query calls on one tree *)

TreeConfigs ==
    {[worldSize |-> U(4), maxDepth |-> 1, capacity |-> cap, nCells |-> 1, deltaT |-> 1,
      sigma |-> 10, d0 |-> U(2), v0 |-> U(1), beta |-> 100,
      epsilon |-> [num |-> 1, den |-> 20]] : cap \in {1, 2}}

\* points a caller inserts: corners, points on split lines, and points outside
\* the root region (x = worldSize, and a negative coordinate)
TreePoints ==
    {<<U(0), U(0)>>, <<U(1), U(1)>>, <<U(2), U(2)>>, <<U(3), U(2)>>, <<U(3), U(3)>>,
     <<U(4), U(1)>>, <<0 - U(1), U(2)>>}

\* query circles: centres inside and outside the world; radius 0, a radius that
\* puts (3,2) exactly on the circle around (2,2), and a radius that makes the
\* circle around (2,2) cover the whole world
TreeCentres == {<<U(0), U(0)>>, <<U(2), U(2)>>, <<U(3), U(3)>>, <<U(5), U(5)>>}
TreeRadii == {U(0), U(1), U(3)}

WholeWorld == [cx |-> U(2), cy |-> U(2), r |-> U(3)]

InitTree ==
    /\ \E cfg \in TreeConfigs : LightSeed(cfg)
    /\ inserted = <<>>
    /\ last = [op |-> "new"]

\* QuadTree.insert called on the root, lines 39-55
TreeInsert(point) ==
    /\ LET r == insert(quadtree, Root, point)
       IN  /\ quadtree' = r.qt
           /\ inserted' = Append(inserted, [point |-> point, ok |-> r.ok])
           /\ last' = [op |-> "insert", point |-> point, ok |-> r.ok]
    /\ UNCHANGED <<config, peers>>

\* QuadTree.query called on the root, lines 86-101
TreeQuery(range) ==
    /\ last' = [op |-> "query", range |-> range, found |-> query(quadtree, Root, range, <<>>)]
    /\ UNCHANGED <<config, peers, quadtree, inserted>>

NextTree ==
    \/ \E p \in TreePoints :
            /\ Len(inserted) < MaxPoints
            /\ TreeInsert([x |-> p[1], y |-> p[2], idx |-> Len(inserted)])
    \/ \E ctr \in TreeCentres, r \in TreeRadii :
            TreeQuery([cx |-> ctr[1], cy |-> ctr[2], r |-> r])

SpecTree == InitTree /\ [][NextTree]_vars


---------------------------------------------------------------------------
(* The example usage, lines 249-263, in the 800 x 800 world of src/game.js *)
(* (lines 35-46): four peers inserted and then updated where they are.     *)

ScenarioConfig ==
    [worldSize |-> U(800), maxDepth |-> 5, capacity |-> 4, nCells |-> 2, deltaT |-> 1,
     sigma |-> 10, d0 |-> U(100), v0 |-> U(5), beta |-> 100,
     epsilon |-> [num |-> 1, den |-> 20]]

\* lines 251-254
ScenarioPositions ==
    (0 :> <<U(100), U(100)>>) @@ (1 :> <<U(150), U(100)>>)
    @@ (2 :> <<U(100), U(200)>>) @@ (3 :> <<U(500), U(500)>>)

ScenarioIds == DOMAIN ScenarioPositions

\* lines 256-259, and the values src/game.js passes (line 156)
ScenarioProfiles ==
    (0 :> {[vx |-> U(5), vy |-> 0, tdf |-> 90, latency |-> 50],
           [vx |-> 0, vy |-> 0, tdf |-> 100, latency |-> 50]})
    @@ (1 :> {[vx |-> 0 - U(5), vy |-> 0, tdf |-> 85, latency |-> 50],
              [vx |-> 0, vy |-> 0, tdf |-> 100, latency |-> 50]})
    @@ (2 :> {[vx |-> 0, vy |-> 0 - U(3), tdf |-> 92, latency |-> 100],
              [vx |-> 0, vy |-> 0, tdf |-> 100, latency |-> 50]})
    @@ (3 :> {[vx |-> 0, vy |-> 0, tdf |-> 80, latency |-> 200],
              [vx |-> 0, vy |-> 0, tdf |-> 100, latency |-> 50]})

InitScenario ==
    /\ LightSeed(ScenarioConfig)
    /\ inserted = <<>>
    /\ last = [op |-> "new"]

NextScenario ==
    \/ \E idx \in ScenarioIds :
            /\ idx \notin DOMAIN peers
            /\ insertPeer(idx, ScenarioPositions[idx][1], ScenarioPositions[idx][2])
    \/ \E idx \in ScenarioIds, f \in UNION {ScenarioProfiles[i] : i \in ScenarioIds} :
            /\ idx \in DOMAIN peers
            /\ f \in ScenarioProfiles[idx]
            /\ updatePeer(idx, ScenarioPositions[idx][1], ScenarioPositions[idx][2],
                          f.vx, f.vy, f.tdf, f.latency)
    \/ \E s \in ScenarioIds, k \in ScenarioIds : selectPeers(s, k)

SpecScenario == InitScenario /\ [][NextScenario]_vars

---------------------------------------------------------------------------
(* Soundness of the fixed-point coordinates: every halving subdivide did    *)
(* was exact, so a node at depth d is worldSize / 2^d wide and high.        *)

HalvingExact ==
    \A path \in DOMAIN quadtree :
        /\ quadtree[path].boundary.width * (2 ^ Len(path)) = config.worldSize
        /\ quadtree[path].boundary.height * (2 ^ Len(path)) = config.worldSize

---------------------------------------------------------------------------
(* Properties of the engine, checked under Spec *)

\* the last call was selectPeers(s, k)
Selected(s, k) ==
    last.op = "selectPeers" /\ last.senderIdx = s /\ last.playerIdx = k

\* the sequence the last selectPeers call returned
Returned == last.result.value

ReturnedIds == {Returned[i].peerIdx : i \in DOMAIN Returned}

HasRecord(i) == i \in DOMAIN peers

\* the causal horizon R = nCells * cellSize * deltaT, cellSize = worldSize / 2^maxDepth
Horizon == config.nCells * (config.worldSize \div (2 ^ config.maxDepth)) * config.deltaT

\* squared distance between two records or points
Apart2(a, b) == (a.x - b.x) * (a.x - b.x) + (a.y - b.y) * (a.y - b.y)

\* the entries of the index
Indexed == Range(AllPoints(quadtree, Root))

\* the participants selectPeers(s, .) is to return: in the index within the
\* horizon of the sender, not the sender, with a record
Eligible(s) ==
    {j \in DOMAIN peers \ {s} :
        \E p \in Indexed : p.idx = j /\ Apart2(p, peers[s]) <= Horizon * Horizon}

\* C1 (self-exclusion): no entry of the result of selectPeers(s, k), for s
\* and k with records, has peerIdx equal to s.
C1_SelfExclusion ==
    \A s \in DOMAIN peers, k \in DOMAIN peers :
        Selected(s, k) => s \notin ReturnedIds

\* C2 (result is the eligible set, each with its own probability):
\* selectPeers(s, k) returns one entry for each eligible participant and no
\* other, and the probability of j's entry is
\* (1 - epsilon) * w_j / sum(w) + epsilon / N for j's own weight w_j.
C2_EligibleWithOwnProbability ==
    \A s \in DOMAIN peers, k \in DOMAIN peers :
        Selected(s, k) =>
            LET w == [j \in Eligible(s) |-> weight(config, peers[s], peers[k], peers[j])]
                RECURSIVE SumOver(_)
                SumOver(js) == IF js = {} THEN 0
                               ELSE LET j == CHOOSE x \in js : TRUE
                                    IN  w[j] + SumOver(js \ {j})
                total == IF SumOver(Eligible(s)) = 0 THEN 1 ELSE SumOver(Eligible(s))
            IN  /\ ReturnedIds = Eligible(s)
                /\ Len(Returned) = Cardinality(Eligible(s))
                /\ \A i \in DOMAIN Returned :
                        Returned[i].peerIdx \in Eligible(s) =>
                            Returned[i].prob =
                                prob(config, w[Returned[i].peerIdx], total,
                                     participantCount(peers))

\* C3 (causal horizon respected): every peer selectPeers(s, k) returns has
\* its current stored position within the horizon of the sender's current
\* stored position.
C3_CausalHorizon ==
    \A s \in DOMAIN peers, k \in DOMAIN peers :
        Selected(s, k) =>
            \A j \in ReturnedIds :
                HasRecord(j) /\ Apart2(peers[j], peers[s]) <= Horizon * Horizon

InWorld(p) ==
    /\ 0 <= p.x /\ p.x < config.worldSize
    /\ 0 <= p.y /\ p.y < config.worldSize

\* seq holds exactly the elements of the set want, each once
HoldsEachOnce(seq, want) ==
    /\ Range(seq) = want
    /\ \A e \in want : Count(seq, e) = 1

\* C4 (index consistency after update): right after an updatePeer call the
\* index holds one entry for each stored participant whose position is in
\* the world, at its current stored position, and no other entry.
C4_IndexConsistentAfterUpdate ==
    last.op = "updatePeer" =>
        HoldsEachOnce(AllPoints(quadtree, Root),
            {[x |-> peers[i].x, y |-> peers[i].y, idx |-> i] :
                i \in {j \in DOMAIN peers : InWorld(peers[j])}})

\* an update that leaves one participant outside the world and a subdivided
\* index holding the others
C4_Witness ==
    /\ last.op = "updatePeer"
    /\ \E i \in DOMAIN peers : ~InWorld(peers[i])
    /\ quadtree[Root].divided
    /\ \E i \in DOMAIN peers : i # last.idx /\ peers[i].latency = 0

\* C7 (unknown sender): selectPeers(s, k) for an s without a record returns
\* the empty sequence, raises nothing, and leaves the store and the index
\* as they were, whether or not k has a record.
C7_UnknownSender ==
    [][(last'.op = "selectPeers" /\ last'.senderIdx \notin DOMAIN peers) =>
            /\ last'.result.value = <<>>
            /\ ~last'.result.threw
            /\ peers' = peers
            /\ quadtree' = quadtree]_vars

\* a call with sender and subject both unknown, on an engine that holds
\* participants and index entries
C7_Witness ==
    /\ last.op = "selectPeers"
    /\ ~HasRecord(last.senderIdx)
    /\ ~HasRecord(last.playerIdx)
    /\ Returned = <<>>
    /\ Indexed # {}

\* the N the engine divides epsilon by
NUsed ==
    IF DOMAIN peers = {} THEN 1
    ELSE 1 + CHOOSE m \in DOMAIN peers : \A i \in DOMAIN peers : i <= m

\* C8 (probability floor and bounds): every probability p of a non-empty
\* result with a present subject satisfies epsilon / N <= p <= 1 and p >= 0.
C8_ProbabilityBounds ==
    (last.op = "selectPeers" /\ HasRecord(last.playerIdx) /\ Returned # <<>>) =>
        \A i \in DOMAIN Returned :
            LET p == Returned[i].prob
            IN  /\ p.den > 0
                /\ p.num >= 0
                /\ p.num <= p.den
                /\ config.epsilon.num * p.den <= p.num * config.epsilon.den * NUsed

\* a result whose weights sum to zero, with the subject at distance zero from
\* the peer: the probability is exactly epsilon / N
C8_Witness ==
    /\ last.op = "selectPeers"
    /\ HasRecord(last.senderIdx) /\ HasRecord(last.playerIdx)
    /\ Returned # <<>>
    /\ \A i \in DOMAIN Returned :
            /\ Returned[i].prob.num * config.epsilon.den * NUsed
                    = config.epsilon.num * Returned[i].prob.den
            /\ HasRecord(Returned[i].peerIdx)
    /\ \E j \in Eligible(last.senderIdx) : Apart2(peers[j], peers[last.playerIdx]) = 0

\* the weights of the candidates the last selectPeers call scored, in order
ScoredWeights ==
    LET cands == candidatesOf(peers,
                     peersInRangeOf(config, peers, quadtree, last.senderIdx),
                     last.senderIdx)
    IN  [i \in DOMAIN cands |->
            weight(config, peers[last.senderIdx], peers[last.playerIdx], peers[cands[i]])]

\* C13 (participant count in normalization): every probability a call of
\* selectPeers returns is (1 - epsilon) * w / sum(w) + epsilon / N with N the
\* number of participants that have a record, whatever ids are in use.
C13_ParticipantCount ==
    (last.op = "selectPeers" /\ ~last.result.threw /\ Returned # <<>>) =>
        \A i \in DOMAIN Returned :
            Returned[i].prob = prob(config, ScoredWeights[i], totalWeightOf(ScoredWeights),
                                    Cardinality(DOMAIN peers))

\* C10 (duplicate insert is a no-op for selection): an insertPeer for an id
\* that has a record leaves the result of selectPeers(s, k) as it was, for
\* every s and k.
C10_DuplicateInsertNoOp ==
    [][(last'.op = "insertPeer" /\ last'.idx \in DOMAIN peers) =>
            \A s \in Ids, k \in Ids :
                selectPeersOf(config, peers', quadtree', s, k)
                    = selectPeersOf(config, peers, quadtree, s, k)]_vars

\* C15 (reads are pure): a call of selectPeers, and a query on the index,
\* leaves the configuration, every record of the store, the set of ids and
\* every node of the index as they were, so the same call made again on the
\* state it leaves returns the same result.
C15_ReadsArePure ==
    /\ [][(last'.op \in {"selectPeers", "query"}) =>
                /\ config' = config
                /\ peers' = peers
                /\ quadtree' = quadtree]_vars
    /\ [](/\ last.op = "selectPeers" =>
                selectPeersOf(config, peers, quadtree,
                              last.senderIdx, last.playerIdx) = last.result
          /\ last.op = "query" =>
                query(quadtree, Root, last.range, <<>>) = last.found)

\* a call that returned a non-empty result from a subdivided index that
\* holds a stale entry next to the current ones
C15_Witness ==
    /\ last.op = "selectPeers"
    /\ Returned # <<>>
    /\ quadtree[Root].divided
    /\ quadtree # rebuild(config, peers)

---------------------------------------------------------------------------
(* The concrete scenario, checked under SpecScenario *)

\* every peer of the scenario has been inserted and updated
ScenarioDone ==
    \A i \in ScenarioIds : HasRecord(i) /\ peers[i].latency > 0

\* C9 as stated: after the inserts and updates, selectPeers(0, 0) includes
\* peers 1 and 2 and excludes peer 3.
C9_ScenarioAsStated ==
    (ScenarioDone /\ Selected(0, 0)) =>
        /\ {1, 2} \subseteq ReturnedIds
        /\ 3 \notin ReturnedIds

\* C9 amended: the horizon is 50; the index query around peer 0 finds peers 0
\* and 1 only (peer 1 at distance exactly 50, peer 2 at distance 100), and
\* the result of selectPeers(0, 0) has one entry and excludes peers 2 and 3.
C9_ScenarioAmended ==
    (ScenarioDone /\ Selected(0, 0)) =>
        /\ Horizon = U(50)
        /\ Range(peersInRangeOf(config, peers, quadtree, 0)) = {0, 1}
        /\ Len(Returned) = 1
        /\ ReturnedIds \cap {2, 3} = {}

\* the scenario as the spec words it: every peer updated at tdf 1.0 except
\* peer 0, then selectPeers(0, 0)
C9_Witness ==
    /\ ScenarioDone
    /\ Selected(0, 0)
    /\ Len(Returned) = 1
    /\ \A i \in ScenarioIds : peers[i].tdf = 100 <=> i # 0

---------------------------------------------------------------------------
(* Properties of the QuadTree, checked under SpecTree *)

\* the insert calls that returned true, in call order
Accepted == SelectSeq(inserted, LAMBDA call : call.ok)

\* squared Euclidean distance from the centre of a circle
Dist2(p, range) ==
    (p.x - range.cx) * (p.x - range.cx) + (p.y - range.cy) * (p.y - range.cy)

\* C5 (range-query correctness): a query returns exactly the points whose
\* insert succeeded and whose squared distance from the centre is at most the
\* radius squared, each once; none is lost to pruning, and a point exactly on
\* the circle is returned.
C5_RangeQueryCorrect ==
    last.op = "query" =>
        HoldsEachOnce(last.found,
            {Accepted[i].point : i \in {j \in DOMAIN Accepted :
                Dist2(Accepted[j].point, last.range) <= last.range.r * last.range.r}})

\* a query on a subdivided tree whose result holds a point exactly on the
\* circle and leaves out an indexed point
C5_Witness ==
    /\ last.op = "query"
    /\ quadtree[Root].divided
    /\ last.range.r > 0
    /\ \E p \in Range(last.found) : Dist2(p, last.range) = last.range.r * last.range.r
    /\ Len(last.found) < Len(Accepted)

Contains(b, p) ==
    /\ b.x <= p.x /\ p.x < b.x + b.width
    /\ b.y <= p.y /\ p.y < b.y + b.height

\* sample points of a region: a 4 x 4 grid and the last point of each axis
Samples(b) ==
    LET xs == {b.x + (i * b.width) \div 4 : i \in 0 .. 3} \cup {b.x + b.width - 1}
        ys == {b.y + (i * b.height) \div 4 : i \in 0 .. 3} \cup {b.y + b.height - 1}
    IN  {[x |-> x, y |-> y] : x \in xs, y \in ys}

\* C6 (insertion never loses points): when every point inserted so far lies
\* in the world, every insert returned true and a query covering the whole
\* world returns exactly the inserted points; and in every subdivided node
\* exactly one of the four children contains any point of the node's region.
C6_InsertNeverLoses ==
    /\ (\A i \in DOMAIN inserted : InWorld(inserted[i].point)) =>
            /\ \A i \in DOMAIN inserted : inserted[i].ok
            /\ HoldsEachOnce(query(quadtree, Root, WholeWorld, <<>>),
                             {inserted[i].point : i \in DOMAIN inserted})
    /\ \A path \in DOMAIN quadtree :
            quadtree[path].divided =>
                \A p \in Samples(quadtree[path].boundary) :
                    Cardinality({i \in 1 .. 4 :
                        /\ Child(path, Quadrants[i]) \in DOMAIN quadtree
                        /\ Contains(quadtree[Child(path, Quadrants[i])].boundary, p)}) = 1

\* MaxPoints in-world points inserted, the last one into a node
\* of the south-east quadrant, below the root
C6_Witness ==
    /\ last.op = "insert" /\ last.ok
    /\ Len(inserted) = MaxPoints
    /\ \A i \in DOMAIN inserted : InWorld(inserted[i].point)
    /\ \E path \in DOMAIN quadtree :
            /\ Len(path) >= 1
            /\ path[1] = "southeast"
            /\ quadtree[path].points # <<>>
            /\ quadtree[path].points[Len(quadtree[path].points)] = last.point

\* C11 (out-of-region insert): an insert on the root returns true exactly
\* when the point lies in [0, worldSize) on both axes; an insert of a point
\* outside returns false and leaves every node of the tree (points, divided
\* flag, children) as it was, also when the root is a full leaf.  So x = 0
\* is accepted and x = worldSize is rejected.
C11_OutOfRegionInsert ==
    [][inserted' # inserted =>
            /\ last'.op = "insert"
            /\ last'.ok = InWorld(last'.point)
            /\ ~InWorld(last'.point) => quadtree' = quadtree]_vars

\* a point with x = worldSize was just rejected by a root that is a full
\* leaf and holds a point with x = 0
C11_Witness ==
    /\ last.op = "insert" /\ ~last.ok
    /\ last.point.x = config.worldSize
    /\ ~quadtree[Root].divided
    /\ Len(quadtree[Root].points) = quadtree[Root].capacity
    /\ DOMAIN quadtree = {Root}
    /\ \E p \in Range(quadtree[Root].points) : p.x = 0

\* the children a node has in the tree
ChildrenOf(qt, path) == {Child(path, Quadrants[i]) : i \in 1 .. 4} \cap DOMAIN qt

\* a node that is not divided: no children, at most capacity points
IsLeaf(qt, path) ==
    /\ ~qt[path].divided
    /\ ChildrenOf(qt, path) = {}
    /\ Len(qt[path].points) <= qt[path].capacity

\* subdivision is one-way: a divided node of this state is a divided node of
\* the next state
StaysDivided ==
    \A path \in DOMAIN quadtree :
        quadtree[path].divided => (path \in DOMAIN quadtree' /\ quadtree'[path].divided)

\* the node shape as the specification states it
NodeShapeAsStated(qt) ==
    \A path \in DOMAIN qt :
        \/ IsLeaf(qt, path)
        \/ /\ qt[path].divided
           /\ qt[path].points = <<>>
           /\ Cardinality(ChildrenOf(qt, path)) = 4

\* C12 as stated: before and after every step, every node is a leaf with at
\* most capacity points or a divided node that holds no point itself and has
\* four children; and a divided node stays divided.
C12_NodeShapeAsStated ==
    [][NodeShapeAsStated(quadtree) /\ NodeShapeAsStated(quadtree') /\ StaysDivided]_vars

\* the node shape the code keeps: subdivide (lines 57-79) moves no point
NodeShapeAmended(qt) ==
    \A path \in DOMAIN qt :
        \/ IsLeaf(qt, path)
        \/ /\ qt[path].divided
           /\ Len(qt[path].points) = qt[path].capacity
           /\ Cardinality(ChildrenOf(qt, path)) = 4

\* C12 (node shape), amended: before and after every step, every node is a
\* leaf with at most capacity points or a divided node that has four children
\* and still holds exactly the capacity points it held when it divided; and a
\* divided node stays divided.
C12_NodeShapeAmended ==
    [][NodeShapeAmended(quadtree) /\ NodeShapeAmended(quadtree') /\ StaysDivided]_vars

\* an insert has just put a point into a child of a divided child of the
\* root: two nested divided nodes, each still holding its points
C12_Witness ==
    /\ last.op = "insert" /\ last.ok
    /\ quadtree[Root].divided /\ quadtree[Root].points # <<>>
    /\ \E path \in DOMAIN quadtree :
            /\ Len(path) = 2
            /\ quadtree[<<path[1]>>].divided
            /\ quadtree[<<path[1]>>].points # <<>>
            /\ last.point \in Range(quadtree[path].points)

\* the number of levels of the tree, the root being level 1
Levels == 1 + (CHOOSE d \in 0 .. MaxPoints + 1 :
                    /\ \E path \in DOMAIN quadtree : Len(path) = d
                    /\ \A path \in DOMAIN quadtree : Len(path) <= d)

\* the inserts so far whose point lies in the region of the root
InRegion == SelectSeq(inserted, LAMBDA call : InWorld(call.point))

CeilDiv(n, d) == (n + d - 1) \div d

\* C14 (insert terminates under clustering): every insert of an in-region
\* point returned true, and after n >= 1 such inserts into a tree of capacity
\* C the tree has at most ceil(n / C) levels, also when the points coincide.
C14_InsertTerminates ==
    /\ \A i \in DOMAIN inserted : InWorld(inserted[i].point) => inserted[i].ok
    /\ InRegion # <<>> =>
            Levels <= CeilDiv(Len(InRegion), quadtree[Root].capacity)

\* MaxPoints inserts of one coordinate into a tree of capacity 1: each
\* returned true, and the tree has MaxPoints levels, which is ceil(n / C) and
\* more than the configured maxDepth allows
C14_Witness ==
    /\ last.op = "insert" /\ last.ok
    /\ Len(inserted) = MaxPoints
    /\ \A i \in DOMAIN inserted :
            /\ inserted[i].ok
            /\ inserted[i].point.x = last.point.x
            /\ inserted[i].point.y = last.point.y
    /\ quadtree[Root].capacity = 1
    /\ Levels = MaxPoints
    /\ Levels > config.maxDepth + 1

=============================================================================
